---- MODULE Spec2Model ----
(***************************************************************************)
(* Child activity monitor (ChildActivityMonitor/Worker.cs): the focused-   *)
(* time loop, the screen-time loop, StopAsync's flush and the fire-and-    *)
(* forget SendToDashboard, as one state machine.                           *)
(*                                                                         *)
(* Three threads run the code: "focus" (the Task.Run lambda of             *)
(* ExecuteAsync), "vis" (the PeriodicTimer loop of ExecuteAsync) and       *)
(* "stop" (the host calling StopAsync).  The three FocusState fields are   *)
(* plain fields shared by "focus" and "stop" with no lock, so every read   *)
(* and write of them is a step of its own.  The visible set and its start  *)
(* times are only touched under _visibleAppsLock.                          *)
(*                                                                         *)
(* Time is in milliseconds since the agent started and advances in steps   *)
(* of Quantum.                                                             *)
(*                                                                         *)
(* The dashboard backend (parental-dashboard-backend/src/index.ts) is the  *)
(* second state machine: its two tables and the request handlers in        *)
(* progress.  Every awaited Prisma call is one step, so handlers of        *)
(* concurrent requests interleave between their database calls.            *)
(***************************************************************************)
EXTENDS Integers, Sequences, FiniteSets, TLC

\* ---------------------------------------------------------------- bounds
\* Milliseconds per step of the clock.
Quantum == 1500
\* Clock steps of a run in which the foreground window changes freely
\* (shorter than the first screen-time tick).
MaxClockFocus == 2
\* Times the foreground window changes to another (title, app) in a run.
MaxSwitches == 2
\* Clock steps of a run in which the set of visible windows changes freely.
MaxClockVisible == 8

\* ------------------------------------------------------ program constants
\* Task.Delay(1000, stoppingToken)
FocusDelayMs == 1000
\* new PeriodicTimer(TimeSpan.FromSeconds(5))
VisiblePeriodMs == 5000
\* if (duration >= 1) in EndCurrentSession
FocusMinSeconds == 1
\* if (duration >= 2) in TrackVisibleWindows
VisibleMinSeconds == 2
\* if (duration >= 1) in StopAsync
FlushMinSeconds == 1
\* int.MaxValue, int.MinValue: the range of (int)duration
Int32Max == 2147483647
Int32Min == (0 - 2147483647) - 1
\* DateTime.MinValue: a start time that is no start time.  It lies about
\* 2000 years before any instant DateTime.Now returns.
MinValue == 0 - 1

VARIABLES
    scenario,               \* which inputs the desktop offers in this run
    switches,               \* changes of the foreground window so far
    clock,                  \* clock steps elapsed
    stoppingToken,          \* TRUE once cancellation is requested
    pc,                     \* position of each thread
    wake,                   \* instant the focus loop's Task.Delay elapses
    sample,                 \* (title, processName) the latest focus tick got
    duration,               \* local `duration` of EndCurrentSession, per caller
    startRead,              \* the _sessionStartTime value `duration` was computed from
    entryName,              \* appName already read into logEntry, per caller
    currentProcessName,     \* _currentProcessName
    currentWindowTitle,     \* _currentWindowTitle
    sessionStartTime,       \* _sessionStartTime
    visibleAppStartTimes,   \* _visibleAppStartTimes: app -> start time
    currentlyVisibleApps,   \* _currentlyVisibleApps
    visibleAppsNow,         \* local visibleAppsNow of the screen-time tick in progress
    visibleAppsLock,        \* holder of _visibleAppsLock, or "free"
    timerSignaled,          \* PeriodicTimer: a tick is pending
    sent,                   \* every logEntry handed to SendToDashboard, in order
    discarded,              \* closed sessions that were below their minimum
    opened,                 \* every FocusState that was opened: (app, title, start)
    controlCommand,         \* backend table ControlCommand: row i has id i
    activityLog,            \* backend table ActivityLog, in insertion order
    requests                \* backend request handlers, in order of arrival

vars == <<scenario, switches, clock, stoppingToken, pc, wake, sample, duration, startRead,
          entryName, currentProcessName, currentWindowTitle, sessionStartTime,
          visibleAppStartTimes, currentlyVisibleApps, visibleAppsNow,
          visibleAppsLock, timerSignaled, sent, discarded, opened,
          controlCommand, activityLog, requests>>

backend == <<controlCommand, activityLog, requests>>
focusState == <<currentProcessName, currentWindowTitle, sessionStartTime>>
visibleState == <<visibleAppStartTimes, currentlyVisibleApps>>
trackerState == <<focusState, visibleState, pc, wake, sample, duration, startRead,
                  entryName, visibleAppsNow, visibleAppsLock, timerSignaled,
                  stoppingToken>>

Threads == {"focus", "vis", "stop"}
Callers == {"focus", "stop"}

\* DateTime.Now
now == clock * Quantum

MaxClock == IF scenario = "visible" THEN MaxClockVisible ELSE MaxClockFocus

\* ------------------------------------------------------------ the desktop
\* A top-level window as the Win32 calls see it.
Window(hwnd, text, visible, minimized, resolves, processName) ==
    [hwnd |-> hwnd, text |-> text, visible |-> visible, minimized |-> minimized,
     resolves |-> resolves, processName |-> processName]

NoWindow == Window(FALSE, "", FALSE, FALSE, FALSE, "")
BlankNotes == Window(TRUE, "  ", TRUE, FALSE, TRUE, "notes")
DocNotes == Window(TRUE, " Doc ", TRUE, FALSE, TRUE, "notes")
InboxMail == Window(TRUE, "Inbox", TRUE, FALSE, TRUE, "mail")
FilesExplorer == Window(TRUE, "Files", TRUE, FALSE, TRUE, "Explorer")
GhostWindow == Window(TRUE, "Ghost", TRUE, FALSE, FALSE, "")
HiddenMail == Window(TRUE, "Draft", FALSE, FALSE, TRUE, "mail")
MinimizedNotes == Window(TRUE, "Todo", TRUE, TRUE, TRUE, "notes")
PaintWindow == Window(TRUE, "Sketch", TRUE, FALSE, TRUE, "paint")

\* What GetForegroundWindow can return in a run of each scenario:
\*   "focus":   the user switches between windows; the run is shorter than
\*              the first screen-time tick, and the Sink does not answer;
\*   "visible": windows appear and disappear while an ignored app has the
\*              focus, and the Sink does not answer;
\*   "sink":    one app only, in a run as short as in "focus", and the Sink
\*              answers.
ForegroundWindows ==
    CASE scenario = "focus" ->
           {NoWindow, BlankNotes, DocNotes, FilesExplorer, GhostWindow}
      [] scenario = "visible" -> {FilesExplorer}
      [] OTHER -> {NoWindow, DocNotes}

\* The windows EnumWindows may walk over.
TopLevelWindows ==
    IF scenario = "sink"
    THEN {DocNotes, FilesExplorer}
    ELSE {DocNotes, InboxMail, PaintWindow, FilesExplorer, GhostWindow, HiddenMail,
          MinimizedNotes}

\* string.Trim() on the window texts of this desktop.
Trim(s) ==
    CASE s = "  " -> ""
      [] s = " Doc " -> "Doc"
      [] OTHER -> s

\* Ordinal lower-casing of the process names of this desktop.
ToLowerOrdinal(s) ==
    CASE s = "Explorer" -> "explorer"
      [] OTHER -> s

IgnoredProcesses ==
    {"explorer", "dllhost", "audiodg", "sihost", "taskhostw", "svchost",
     "runtimebroker", "searchapp", "ctfmon", "conhost", "fontdrvhost"}

\* IgnoredProcesses.Contains(name) under StringComparer.OrdinalIgnoreCase
IsIgnoredExact(name) == name \in IgnoredProcesses
IsIgnored(name) == ToLowerOrdinal(name) \in IgnoredProcesses

\* string.IsNullOrWhiteSpace
IsNullOrWhiteSpace(s) == Trim(s) = ""

\* catch { return (title, "unknown"); }
UnresolvedAsBlank == ""
UnresolvedName == "unknown"

GetActiveWindowInfo(w) ==
    IF ~w.hwnd THEN [title |-> "", processName |-> ""]
    ELSE IF Trim(w.text) = "" THEN [title |-> "", processName |-> ""]
    ELSE IF ~w.resolves THEN [title |-> Trim(w.text), processName |-> UnresolvedName]
    ELSE [title |-> Trim(w.text),
          processName |-> IF IsIgnored(w.processName) THEN "" ELSE w.processName]

NoSample == [title |-> "", processName |-> ""]

\* ------------------------------------------------------------ durations
\* (DateTime.Now - start).TotalSeconds, kept in milliseconds.  A start of
\* DateTime.MinValue gives a span of about 6.4e10 seconds, beyond the range
\* of int: `huge`.
NoDuration == [huge |-> FALSE, ms |-> 0]
Since(start) ==
    IF start = MinValue THEN [huge |-> TRUE, ms |-> 0]
    ELSE [huge |-> FALSE, ms |-> now - start]

\* duration >= seconds
AtLeast(d, seconds) == d.huge \/ d.ms >= seconds * 1000

\* (int)duration: truncation; out of range the result is unspecified, and
\* the runtimes in use give int.MinValue (x64) or int.MaxValue (saturating).
ToInt32(d) == IF d.huge THEN {Int32Min, Int32Max} ELSE {d.ms \div 1000}

\* ------------------------------------------------------------ dispatcher
\* The properties of the anonymous object built at each emission site, which
\* JsonSerializer.Serialize writes as the fields of the POST body.
SessionEndedBody ==
    {"timestamp", "localTimestamp", "machineName", "userName", "appName",
     "windowTitle", "durationSeconds", "executablePath", "screenTime"}
ShutdownBody == {"timestamp", "appName", "windowTitle", "durationSeconds", "screenTime"}
BodyOf(path) == IF path = "flush" THEN ShutdownBody ELSE SessionEndedBody

\* screenTime = false in EndCurrentSession, true in TrackVisibleWindows and in
\* the flush of StopAsync.
ScreenTimeOf(path) == path \in {"tick", "flush"}

LogEntry(kind, path, appName, windowTitle, seconds, start, ms) ==
    [kind |-> kind, path |-> path, appName |-> appName, windowTitle |-> windowTitle,
     durationSeconds |-> seconds, start |-> start, ms |-> ms,
     body |-> BodyOf(path), screenTime |-> ScreenTimeOf(path),
     status |-> "inflight", posts |-> 1]

\* _ = SendToDashboard(logEntry): runs up to the await of PostAsync and
\* returns; the caller drops the task.
SendToDashboard(log, entry) == Append(log, entry)

\* Whether a caller that has dispatched goes on to its next statement: the
\* task is discarded (`_ =`), never awaited.
CallerAwaits(log) == \A i \in 1..Len(log) : log[i].status # "inflight"
CallerResumes(log) == TRUE

Start ==
    /\ switches = 0
    /\ clock = 0
    /\ stoppingToken = FALSE
    /\ pc = [t \in Threads |-> CASE t = "focus" -> "sleep"
                                 [] t = "vis" -> "wait"
                                 [] OTHER -> "idle"]
    /\ wake = 0
    /\ sample = NoSample
    /\ duration = [t \in Callers |-> NoDuration]
    /\ startRead = [t \in Callers |-> MinValue]
    /\ entryName = [t \in Callers |-> ""]
    /\ currentProcessName = ""
    /\ currentWindowTitle = ""
    /\ sessionStartTime = MinValue
    /\ visibleAppStartTimes = << >>
    /\ currentlyVisibleApps = {}
    /\ visibleAppsNow = {}
    /\ visibleAppsLock = "free"
    /\ timerSignaled = FALSE
    /\ sent = << >>
    /\ discarded = {}
    /\ opened = {}
    /\ controlCommand = << >>
    /\ activityLog = << >>
    /\ requests = << >>

Init == scenario \in {"focus", "visible"} /\ Start
InitSink == scenario = "sink" /\ Start


\* ------------------------------------------------------------ the clock
\* Time passes.  The PeriodicTimer fires at every multiple of its period
\* and keeps at most one pending tick.
AdvanceTime ==
    /\ clock < MaxClock
    /\ clock' = clock + 1
    /\ timerSignaled' =
         (timerSignaled
          \/ ((clock + 1) * Quantum) \div VisiblePeriodMs > now \div VisiblePeriodMs)
    /\ UNCHANGED <<backend, scenario, switches, stoppingToken, pc, wake, sample, duration, startRead,
                   entryName, focusState, visibleState, visibleAppsNow,
                   visibleAppsLock, sent, discarded, opened>>

\* ---------------------------------------------------- EndCurrentSession
\* Where EndCurrentSession returns to in each caller.
Return(t) == IF t = "focus" THEN "set_name" ELSE "lock"

Goto(t, label) == pc' = [pc EXCEPT ![t] = label]

\* if (_sessionStartTime == DateTime.MinValue) return;
EndCheck(t) ==
    /\ pc[t] = "end_check"
    /\ IF sessionStartTime = MinValue THEN Goto(t, Return(t)) ELSE Goto(t, "end_dur")
    /\ UNCHANGED <<backend, scenario, switches, clock, stoppingToken, wake, sample, duration, startRead,
                   entryName, focusState, visibleState, visibleAppsNow,
                   visibleAppsLock, timerSignaled, sent, discarded, opened>>

\* The threshold of EndCurrentSession.
MeetsFocusMinimum(d) == AtLeast(d, FocusMinSeconds)

\* var duration = (DateTime.Now - _sessionStartTime).TotalSeconds;
\* if (duration >= 1) { ... }
EndDuration(t) ==
    /\ pc[t] = "end_dur"
    /\ LET d == Since(sessionStartTime) IN
         IF MeetsFocusMinimum(d)
         THEN /\ duration' = [duration EXCEPT ![t] = d]
              /\ startRead' = [startRead EXCEPT ![t] = sessionStartTime]
              /\ Goto(t, "end_name")
              /\ UNCHANGED discarded
         ELSE /\ discarded' = discarded \cup
                    {[kind |-> "Focused", path |-> t, start |-> sessionStartTime,
                      ms |-> d.ms]}
              /\ Goto(t, "clr_name")
              /\ UNCHANGED <<duration, startRead>>
    /\ UNCHANGED <<backend, scenario, switches, clock, stoppingToken, wake, sample, entryName,
                   focusState, visibleState, visibleAppsNow, visibleAppsLock,
                   timerSignaled, sent, opened>>

\* appName = _currentProcessName,
EndReadName(t) ==
    /\ pc[t] = "end_name"
    /\ entryName' = [entryName EXCEPT ![t] = currentProcessName]
    /\ Goto(t, "end_send")
    /\ UNCHANGED <<backend, scenario, switches, clock, stoppingToken, wake, sample, duration, startRead,
                   focusState, visibleState, visibleAppsNow, visibleAppsLock,
                   timerSignaled, sent, discarded, opened>>

\* windowTitle = _currentWindowTitle, durationSeconds = (int)duration,
\* screenTime = false;  _ = SendToDashboard(logEntry);
EndSend(t) ==
    /\ pc[t] = "end_send"
    /\ \E seconds \in ToInt32(duration[t]) :
         sent' = SendToDashboard(sent,
                    LogEntry("Focused", t, entryName[t], currentWindowTitle, seconds,
                             startRead[t], duration[t].ms))
    /\ duration' = [duration EXCEPT ![t] = NoDuration]
    /\ startRead' = [startRead EXCEPT ![t] = MinValue]
    /\ entryName' = [entryName EXCEPT ![t] = ""]
    /\ Goto(t, "clr_name")
    /\ UNCHANGED <<backend, scenario, switches, clock, stoppingToken, wake, sample, focusState,
                   visibleState, visibleAppsNow, visibleAppsLock, timerSignaled,
                   discarded, opened>>

\* _currentProcessName = "";
EndClearName(t) ==
    /\ pc[t] = "clr_name"
    /\ CallerResumes(sent)
    /\ currentProcessName' = ""
    /\ Goto(t, "clr_title")
    /\ UNCHANGED <<backend, scenario, switches, clock, stoppingToken, wake, sample, duration, startRead,
                   entryName, currentWindowTitle, sessionStartTime, visibleState,
                   visibleAppsNow, visibleAppsLock, timerSignaled, sent, discarded,
                   opened>>

\* _currentWindowTitle = "";
EndClearTitle(t) ==
    /\ pc[t] = "clr_title"
    /\ currentWindowTitle' = ""
    /\ Goto(t, "clr_start")
    /\ UNCHANGED <<backend, scenario, switches, clock, stoppingToken, wake, sample, duration, startRead,
                   entryName, currentProcessName, sessionStartTime, visibleState,
                   visibleAppsNow, visibleAppsLock, timerSignaled, sent, discarded,
                   opened>>

\* _sessionStartTime = DateTime.MinValue;
EndClearStart(t) ==
    /\ pc[t] = "clr_start"
    /\ sessionStartTime' = MinValue
    /\ Goto(t, Return(t))
    /\ UNCHANGED <<backend, scenario, switches, clock, stoppingToken, wake, sample, duration, startRead,
                   entryName, currentProcessName, currentWindowTitle, visibleState,
                   visibleAppsNow, visibleAppsLock, timerSignaled, sent, discarded,
                   opened>>

EndCurrentSession(t) ==
    \/ EndCheck(t)
    \/ EndDuration(t)
    \/ EndReadName(t)
    \/ EndSend(t)
    \/ EndClearName(t)
    \/ EndClearTitle(t)
    \/ EndClearStart(t)

\* ------------------------------------------------- the focused-time loop
\* The test of one tick on its sample: does it close and reopen?
IsChangeIgnoringBlank(info) ==
    info.processName # currentProcessName \/ info.title # currentWindowTitle
IsChange(info) ==
    /\ ~IsNullOrWhiteSpace(info.title)
    /\ ~IsNullOrWhiteSpace(info.processName)
    /\ (info.processName # currentProcessName \/ info.title # currentWindowTitle)

\* One pass of the while loop up to the comparison: the delay has elapsed,
\* the token is not cancelled, the foreground window is sampled.  A tick that
\* changes nothing goes straight to the next Task.Delay.
FocusTick ==
    /\ pc["focus"] = "sleep"
    /\ ~stoppingToken
    /\ now >= wake
    /\ \E w \in ForegroundWindows :
         LET info == GetActiveWindowInfo(w) IN
           /\ sample' = info
           /\ IF IsChange(info)
              THEN /\ switches < MaxSwitches
                   /\ switches' = switches + 1
                   /\ Goto("focus", "end_check")
                   /\ UNCHANGED wake
              ELSE /\ wake' = now + FocusDelayMs
                   /\ UNCHANGED <<pc, switches>>
    /\ UNCHANGED <<backend, scenario, clock, stoppingToken, duration, startRead, entryName,
                   focusState, visibleState, visibleAppsNow, visibleAppsLock,
                   timerSignaled, sent, discarded, opened>>

\* _currentProcessName = processName;
FocusSetName ==
    /\ pc["focus"] = "set_name"
    /\ currentProcessName' = sample.processName
    /\ Goto("focus", "set_title")
    /\ UNCHANGED <<backend, scenario, switches, clock, stoppingToken, wake, sample, duration, startRead,
                   entryName, currentWindowTitle, sessionStartTime, visibleState,
                   visibleAppsNow, visibleAppsLock, timerSignaled, sent, discarded,
                   opened>>

\* _currentWindowTitle = title;
FocusSetTitle ==
    /\ pc["focus"] = "set_title"
    /\ currentWindowTitle' = sample.title
    /\ Goto("focus", "set_start")
    /\ UNCHANGED <<backend, scenario, switches, clock, stoppingToken, wake, sample, duration, startRead,
                   entryName, currentProcessName, sessionStartTime, visibleState,
                   visibleAppsNow, visibleAppsLock, timerSignaled, sent, discarded,
                   opened>>

\* _sessionStartTime = DateTime.Now;  then await Task.Delay(1000, stoppingToken)
FocusSetStart ==
    /\ pc["focus"] = "set_start"
    /\ sessionStartTime' = now
    /\ opened' = opened \cup
         {[appName |-> sample.processName, windowTitle |-> sample.title,
           start |-> now]}
    /\ wake' = now + FocusDelayMs
    /\ Goto("focus", "sleep")
    /\ UNCHANGED <<backend, scenario, switches, clock, stoppingToken, sample, duration, startRead, entryName,
                   currentProcessName, currentWindowTitle, visibleState,
                   visibleAppsNow, visibleAppsLock, timerSignaled, sent, discarded>>

\* Task.Delay(1000, stoppingToken) throws once the token is cancelled, and
\* the while condition ends the loop: the lambda is over.
FocusCancelled ==
    /\ pc["focus"] = "sleep"
    /\ stoppingToken
    /\ Goto("focus", "done")
    /\ UNCHANGED <<backend, scenario, switches, clock, stoppingToken, wake, sample, duration, startRead,
                   entryName, focusState, visibleState, visibleAppsNow,
                   visibleAppsLock, timerSignaled, sent, discarded, opened>>

FocusLoop ==
    \/ FocusTick
    \/ EndCurrentSession("focus")
    \/ FocusSetName
    \/ FocusSetTitle
    \/ FocusSetStart
    \/ FocusCancelled

\* ------------------------------------------------- the screen-time loop
\* The EnumWindows callback over the windows `wins`: visibleAppsNow.
IsCounted(w) == w.visible /\ ~w.minimized /\ w.resolves /\ ~IsIgnored(w.processName)

EnumWindows(wins) == {w.processName : w \in {x \in wins : IsCounted(x)}}

\* Restriction of a start-time dictionary to the keys in `keys`.
Restrict(f, keys) == [a \in (DOMAIN f) \cap keys |-> f[a]]

\* Every order in which a foreach may walk over the set S.
Orders(S) ==
    {q \in [1..Cardinality(S) -> S] : \A i, j \in 1..Cardinality(S) : q[i] = q[j] => i = j}

RECURSIVE SendAll(_, _, _, _, _, _)
\* SendToDashboard for the apps of `order` in turn.
SendAll(log, order, starts, kind, path, title) ==
    IF order = << >> THEN log
    ELSE SendAll(SendToDashboard(log,
                    LogEntry(kind, path, Head(order), title,
                             (now - starts[Head(order)]) \div 1000, starts[Head(order)],
                             now - starts[Head(order)])),
                 Tail(order), starts, kind, path, title)

\* The sessions a tick ends: _currentlyVisibleApps.Except(visibleAppsNow)
ClosedAppsAll(prev, curr) == prev
ClosedApps(prev, curr) == prev \ curr
\* The sessions a tick starts: visibleAppsNow.Except(_currentlyVisibleApps)
OpenedAppsAll(prev, curr) == curr
OpenedApps(prev, curr) == curr \ prev

\* if (duration >= 2) in TrackVisibleWindows; if (duration >= 1) in StopAsync
MeetsVisibleMinimum(ms) == ms >= VisibleMinSeconds * 1000
MeetsFlushMinimum(ms) == ms >= FlushMinSeconds * 1000

\* The apps among `apps` whose TryRemove succeeds.
Removed(starts, apps) == apps \cap DOMAIN starts

\* _visibleAppStartTimes after the two foreach loops of a tick.
StartTimesAfterTick(starts, prev, curr) ==
    [a \in ((DOMAIN starts) \ ClosedApps(prev, curr)) \cup OpenedApps(prev, curr) |->
        IF a \in OpenedApps(prev, curr) THEN now ELSE starts[a]]

Discard(kind, path, starts, apps) ==
    {[kind |-> kind, path |-> path, start |-> starts[a], ms |-> now - starts[a]] :
        a \in apps}

\* await screenTimeTimer.WaitForNextTickAsync(stoppingToken) completes with a
\* pending tick; TrackVisibleWindows starts and enumerates the windows.
VisTick ==
    /\ pc["vis"] = "wait"
    /\ ~stoppingToken
    /\ timerSignaled
    /\ timerSignaled' = FALSE
    /\ \E wins \in SUBSET TopLevelWindows : visibleAppsNow' = EnumWindows(wins)
    /\ Goto("vis", "lock")
    /\ UNCHANGED <<backend, scenario, switches, clock, stoppingToken, wake, sample, duration, startRead,
                   entryName, focusState, visibleState, visibleAppsLock, sent,
                   discarded, opened>>

\* lock (_visibleAppsLock): Monitor.Enter goes on only when no other thread
\* holds the object.
EnterAnyway(lock) == TRUE
Enter(lock) == lock = "free"

\* lock (_visibleAppsLock) {
VisLock ==
    /\ pc["vis"] = "lock"
    /\ Enter(visibleAppsLock)
    /\ visibleAppsLock' = "vis"
    /\ Goto("vis", "diff")
    /\ UNCHANGED <<backend, scenario, switches, clock, stoppingToken, wake, sample, duration, startRead,
                   entryName, focusState, visibleState, visibleAppsNow,
                   timerSignaled, sent, discarded, opened>>

\* The body of the lock statement of TrackVisibleWindows.
VisDiff ==
    /\ pc["vis"] = "diff"
    /\ LET removed == Removed(visibleAppStartTimes,
                              ClosedApps(currentlyVisibleApps, visibleAppsNow))
           emitted == {a \in removed :
                         MeetsVisibleMinimum(now - visibleAppStartTimes[a])}
       IN /\ \E order \in Orders(emitted) :
               sent' = SendAll(sent, order, visibleAppStartTimes, "Visible", "tick",
                               "(Visible Window)")
          /\ discarded' = discarded \cup
               Discard("Visible", "tick", visibleAppStartTimes, removed \ emitted)
    /\ visibleAppStartTimes' =
         StartTimesAfterTick(visibleAppStartTimes, currentlyVisibleApps, visibleAppsNow)
    /\ currentlyVisibleApps' = visibleAppsNow
    /\ visibleAppsNow' = {}
    /\ Goto("vis", "unlock")
    /\ UNCHANGED <<backend, scenario, switches, clock, stoppingToken, wake, sample, duration,
                   startRead, entryName, focusState, visibleAppsLock, timerSignaled,
                   opened>>

\* } : the lock is released and TrackVisibleWindows returns.
VisUnlock ==
    /\ pc["vis"] = "unlock"
    /\ CallerResumes(sent)
    /\ visibleAppsLock' = "free"
    /\ Goto("vis", "wait")
    /\ UNCHANGED <<backend, scenario, switches, clock, stoppingToken, wake, sample, duration,
                   startRead, entryName, focusState, visibleState, visibleAppsNow,
                   timerSignaled, sent, discarded, opened>>

\* WaitForNextTickAsync(stoppingToken) throws once the token is cancelled:
\* ExecuteAsync is over.
VisCancelled ==
    /\ pc["vis"] = "wait"
    /\ stoppingToken
    /\ Goto("vis", "done")
    /\ UNCHANGED <<backend, scenario, switches, clock, stoppingToken, wake, sample, duration, startRead,
                   entryName, focusState, visibleState, visibleAppsNow,
                   visibleAppsLock, timerSignaled, sent, discarded, opened>>

VisLoop ==
    \/ VisTick
    \/ VisLock
    \/ VisDiff
    \/ VisUnlock
    \/ VisCancelled

\* ------------------------------------------------------------ StopAsync
\* The host calls StopAsync: EndCurrentSession() is its first statement.
StopBegin ==
    /\ pc["stop"] = "idle"
    /\ Goto("stop", "end_check")
    /\ UNCHANGED <<backend, scenario, switches, clock, stoppingToken, wake, sample, duration, startRead,
                   entryName, focusState, visibleState, visibleAppsNow,
                   visibleAppsLock, timerSignaled, sent, discarded, opened>>

\* lock (_visibleAppsLock) {
StopLock ==
    /\ pc["stop"] = "lock"
    /\ Enter(visibleAppsLock)
    /\ visibleAppsLock' = "stop"
    /\ Goto("stop", "flush")
    /\ UNCHANGED <<backend, scenario, switches, clock, stoppingToken, wake, sample, duration, startRead,
                   entryName, focusState, visibleState, visibleAppsNow,
                   timerSignaled, sent, discarded, opened>>

\* _visibleAppStartTimes after the foreach of StopAsync.
StartTimesAfterFlushKept(starts, apps) == starts
StartTimesAfterFlush(starts, apps) == Restrict(starts, (DOMAIN starts) \ apps)

\* The body of the lock statement of StopAsync.
StopFlush ==
    /\ pc["stop"] = "flush"
    /\ LET removed == Removed(visibleAppStartTimes, currentlyVisibleApps)
           emitted == {a \in removed : MeetsFlushMinimum(now - visibleAppStartTimes[a])}
       IN /\ \E order \in Orders(emitted) :
               sent' = SendAll(sent, order, visibleAppStartTimes, "Visible", "flush",
                               "(Visible Window - Shutdown)")
          /\ discarded' = discarded \cup
               Discard("Visible", "flush", visibleAppStartTimes, removed \ emitted)
    /\ visibleAppStartTimes' =
         StartTimesAfterFlush(visibleAppStartTimes, currentlyVisibleApps)
    /\ Goto("stop", "unlock")
    /\ UNCHANGED <<backend, scenario, switches, clock, stoppingToken, wake, sample, duration,
                   startRead, entryName, focusState, currentlyVisibleApps,
                   visibleAppsNow, visibleAppsLock, timerSignaled, opened>>

\* } : the lock is released.
StopUnlock ==
    /\ pc["stop"] = "unlock"
    /\ CallerResumes(sent)
    /\ visibleAppsLock' = "free"
    /\ Goto("stop", "cancel")
    /\ UNCHANGED <<backend, scenario, switches, clock, stoppingToken, wake, sample, duration,
                   startRead, entryName, focusState, visibleState, visibleAppsNow,
                   timerSignaled, sent, discarded, opened>>

\* await base.StopAsync(cancellationToken): BackgroundService cancels the
\* stopping token ...
StopCancel ==
    /\ pc["stop"] = "cancel"
    /\ stoppingToken' = TRUE
    /\ Goto("stop", "join")
    /\ UNCHANGED <<backend, scenario, switches, clock, wake, sample, duration, startRead, entryName,
                   focusState, visibleState, visibleAppsNow, visibleAppsLock,
                   timerSignaled, sent, discarded, opened>>

\* ... and waits for the task ExecuteAsync returned.
StopJoin ==
    /\ pc["stop"] = "join"
    /\ pc["vis"] = "done"
    /\ Goto("stop", "done")
    /\ UNCHANGED <<backend, scenario, switches, clock, stoppingToken, wake, sample, duration, startRead,
                   entryName, focusState, visibleState, visibleAppsNow,
                   visibleAppsLock, timerSignaled, sent, discarded, opened>>

StopAsync ==
    \/ StopBegin
    \/ EndCurrentSession("stop")
    \/ StopLock
    \/ StopFlush
    \/ StopUnlock
    \/ StopCancel
    \/ StopJoin

\* ------------------------------------------------------------ delivery
\* How the POST of a dispatched entry can end: a success status, a
\* non-success status (logged), an exception (timeout, no connection; logged).
Outcomes == {"ok", "rejected", "failed"}

\* The entry once its PostAsync has ended with `outcome`.
CompletedWithRetry(entry, outcome) ==
    IF outcome = "ok" THEN [entry EXCEPT !.status = outcome]
    ELSE [entry EXCEPT !.posts = @ + 1]
Completed(entry, outcome) == [entry EXCEPT !.status = outcome]

\* The continuation of SendToDashboard after await httpClient.PostAsync.
Deliver ==
    /\ pc["stop"] # "exited"
    /\ \E i \in 1..Len(sent), outcome \in Outcomes :
         /\ sent[i].status = "inflight"
         /\ sent' = [sent EXCEPT ![i] = Completed(sent[i], outcome)]
    /\ UNCHANGED <<backend, scenario, switches, clock, stoppingToken, pc, wake, sample, duration,
                   startRead, entryName, focusState, visibleState, visibleAppsNow,
                   visibleAppsLock, timerSignaled, discarded, opened>>

\* The agent while the Sink does not answer.
Next ==
    \/ AdvanceTime
    \/ FocusLoop
    \/ VisLoop
    \/ StopAsync

Spec == Init /\ [][Next]_vars

\* The agent and a Sink that answers, in a run shorter than the first
\* screen-time tick: the screen-time loop only waits.
NextSink ==
    \/ AdvanceTime
    \/ FocusLoop
    \/ VisCancelled
    \/ StopAsync
    \/ Deliver

SpecSink == InitSink /\ [][NextSink]_vars

\* Where a loop goes on when a tick has thrown: both loops wrap the tick in
\* try { ... } catch (Exception ex) { _logger.LogError(...) } inside the loop.
Uncaught(t) == "done"
Caught(t) == IF t = "focus" THEN "sleep" ELSE "wait"

\* A statement of a focus tick throws (anywhere between the sample and the
\* end of the if): the catch of line 87 logs, and the loop goes to its
\* Task.Delay.
FocusThrows ==
    /\ pc["focus"] \in {"end_check", "end_dur", "end_name", "end_send", "clr_name",
                        "clr_title", "clr_start", "set_name", "set_title", "set_start"}
    /\ pc' = [pc EXCEPT !["focus"] = Caught("focus")]
    /\ wake' = now + FocusDelayMs
    /\ duration' = [duration EXCEPT !["focus"] = NoDuration]
    /\ startRead' = [startRead EXCEPT !["focus"] = MinValue]
    /\ entryName' = [entryName EXCEPT !["focus"] = ""]
    /\ UNCHANGED <<backend, scenario, switches, clock, stoppingToken, sample, focusState,
                   visibleState, visibleAppsNow, visibleAppsLock, timerSignaled, sent,
                   discarded, opened>>

\* TrackVisibleWindows throws after the enumeration, before the lock or on
\* the first statement inside it: the lock statement releases the lock, the
\* catch of line 103 logs, and the loop waits for the next timer tick.
VisThrows ==
    /\ pc["vis"] \in {"lock", "diff"}
    /\ pc' = [pc EXCEPT !["vis"] = Caught("vis")]
    /\ visibleAppsLock' = IF pc["vis"] = "diff" THEN "free" ELSE visibleAppsLock
    /\ visibleAppsNow' = {}
    /\ UNCHANGED <<backend, scenario, switches, clock, stoppingToken, wake, sample, duration,
                   startRead, entryName, focusState, visibleState, timerSignaled, sent,
                   discarded, opened>>

\* The agent when ticks can throw.  The Sink answers in the "sink" runs
\* only (see SpecSink) and stays silent in the others.
DeliverInSink == scenario = "sink" /\ Deliver

NextFaulty ==
    \/ Next
    \/ FocusThrows
    \/ VisThrows
    \/ DeliverInSink

SpecFaulty == (Init \/ InitSink) /\ [][NextFaulty]_vars

\* Program.Main: CreateHostBuilder(args).Build().Run() returns once the host
\* has stopped its services, Main returns and the process is over: every
\* thread is gone, and a POST still in flight is never completed.
Exit ==
    /\ pc["stop"] = "done"
    /\ pc' = [t \in Threads |-> IF t = "stop" THEN "exited" ELSE "done"]
    /\ UNCHANGED <<backend, scenario, switches, clock, stoppingToken, wake, sample, duration,
                   startRead, entryName, focusState, visibleState, visibleAppsNow,
                   visibleAppsLock, timerSignaled, sent, discarded, opened>>

\* The agent, a Sink that answers and the end of the process, in the runs of
\* SpecSink.
NextDrain ==
    \/ NextSink
    \/ Exit

\* Every thread that can take a step is scheduled in the end, and a POST
\* ends (HttpClient.Timeout is 10 s) as long as the process lives.
SpecDrain ==
    /\ InitSink
    /\ [][NextDrain]_vars
    /\ WF_vars(FocusLoop)
    /\ WF_vars(VisCancelled)
    /\ WF_vars(StopAsync)
    /\ WF_vars(Deliver)

\* ================================================================ claims
EndPositions ==
    {"end_check", "end_dur", "end_name", "end_send", "clr_name", "clr_title",
     "clr_start"}
\* The positions of StopAsync from its first read of FocusState to the
\* release of the lock: the shutdown flush.
FlushPositions == EndPositions \cup {"lock", "flush", "unlock"}

FocusedEntries == {i \in 1..Len(sent) : sent[i].kind = "Focused"}
VisibleEntries == {i \in 1..Len(sent) : sent[i].kind = "Visible"}

\* The entries a step has appended to the log.
NewEntries == {i \in 1..Len(sent') : i > Len(sent)}

\* C1: a Focused session is emitted for a pair (appName, title) if and only
\* if that pair was opened as the FocusState and had been it for at least
\* 1 second when it was closed; a pair closed earlier is discarded.
C1_FocusedEmittedIffHeld ==
    /\ \A i \in FocusedEntries :
         /\ [appName |-> sent[i].appName, windowTitle |-> sent[i].windowTitle,
             start |-> sent[i].start] \in opened
         /\ sent[i].ms >= FocusMinSeconds * 1000
    /\ \A d \in discarded : d.kind = "Focused" => d.ms < FocusMinSeconds * 1000

\* C4: no Focused session is dispatched twice, by the loop and the shutdown
\* flush or by either of them, and the flush dispatches at most one.
C4_FocusedAtMostOnce ==
    /\ \A i, j \in FocusedEntries : sent[i].start = sent[j].start => i = j
    /\ Cardinality({i \in FocusedEntries : sent[i].path = "stop"}) <= 1

\* The minimum duration, in seconds, of each emission path.
MinimumOf(kind, path) ==
    IF kind = "Focused" THEN FocusMinSeconds
    ELSE IF path = "tick" THEN VisibleMinSeconds ELSE FlushMinSeconds

\* C7: every dispatched session has durationSeconds >= 0 and at least the
\* minimum of its path (Focused 1 s, Visible at a tick 2 s, Visible at the
\* shutdown flush 1 s), and every discarded one was below its minimum.
C7_DurationMeetsMinimum ==
    /\ \A i \in 1..Len(sent) :
         /\ sent[i].durationSeconds >= 0
         /\ sent[i].durationSeconds >= MinimumOf(sent[i].kind, sent[i].path)
    /\ \A d \in discarded : d.ms < MinimumOf(d.kind, d.path) * 1000

\* C8: every step of the shutdown flush is taken with the stopping token
\* already cancelled.
C8_FlushAfterCancellation ==
    [][(pc["stop"] \in FlushPositions /\ pc'["stop"] # pc["stop"]) => stoppingToken]_vars

\* A step that samples the foreground window.
FocusTickStep ==
    /\ pc["focus"] = "sleep"
    /\ (pc'["focus"] = "end_check" \/ wake' # wake)

\* C2: a focus tick whose sample has an empty title or an empty app, or
\* is the pair the FocusState already holds, changes no field of the
\* FocusState, emits nothing and goes back to sleep.
C2_BlankTickLeavesFocusState ==
    [][(/\ FocusTickStep
        /\ \/ sample'.title = ""
           \/ sample'.processName = ""
           \/ (sample'.processName = currentProcessName
               /\ sample'.title = currentWindowTitle))
       => (/\ UNCHANGED <<currentProcessName, currentWindowTitle, sessionStartTime,
                          sent, discarded>>
           /\ pc'["focus"] = "sleep")]_vars

\* An ignored app had the focus at a tick later than the one after the open
\* session started, and the session is still the one that was opened.
C2_Witness ==
    /\ pc["focus"] = "sleep"
    /\ pc["stop"] = "idle"
    /\ currentProcessName = "notes"
    /\ currentWindowTitle = "Doc"
    /\ sessionStartTime # MinValue
    /\ wake > sessionStartTime + FocusDelayMs
    /\ sample = [title |-> "Files", processName |-> ""]

\* The step that runs the locked body of TrackVisibleWindows.
VisDiffStep == pc["vis"] = "diff" /\ pc'["vis"] = "unlock"

\* C3: one visibility tick removes the start time of exactly the apps of
\* Prev \ Curr and emits only for them (once each, when the session lasted
\* 2 s), gives the apps of Curr \ Prev the current time as start, leaves
\* the apps of Prev \cap Curr as they were, and stores Curr; with
\* Curr = Prev it emits nothing and changes no start time.
C3_TickDiffsPrevAndCurr ==
    [][VisDiffStep =>
        LET Prev == currentlyVisibleApps
            Curr == visibleAppsNow
            S == visibleAppStartTimes
            T == visibleAppStartTimes'
        IN /\ (DOMAIN T) \cap (Prev \ Curr) = {}
           /\ \A a \in Curr \ Prev : a \in DOMAIN T /\ T[a] = now
           /\ \A a \in Prev \cap Curr :
                /\ a \in DOMAIN T <=> a \in DOMAIN S
                /\ a \in DOMAIN S => T[a] = S[a]
           /\ \A i \in NewEntries :
                sent'[i].kind = "Visible" /\ sent'[i].appName \in Prev \ Curr
           /\ \A a \in Prev \ Curr :
                Cardinality({i \in NewEntries : sent'[i].appName = a}) =
                  IF a \in DOMAIN S /\ now - S[a] >= VisibleMinSeconds * 1000
                  THEN 1 ELSE 0
           /\ currentlyVisibleApps' = Curr
           /\ Curr = Prev => (sent' = sent /\ T = S)]_vars

\* A tick has closed notes (emitted), kept mail and opened paint.
C3_Witness ==
    /\ pc["vis"] = "unlock"
    /\ currentlyVisibleApps = {"mail", "paint"}
    /\ DOMAIN visibleAppStartTimes = {"mail", "paint"}
    /\ visibleAppStartTimes["paint"] = now
    /\ visibleAppStartTimes["mail"] < now
    /\ \E i \in VisibleEntries :
         /\ sent[i].appName = "notes"
         /\ sent[i].path = "tick"
         /\ sent[i].start + sent[i].ms = now

\* The step that runs the locked body of StopAsync.
FlushStep == pc["stop"] = "flush" /\ pc'["stop"] = "unlock"

\* No Visible session (app, start) appears twice in the log.
VisibleAtMostOnce ==
    \A i, j \in VisibleEntries :
        (sent[i].appName = sent[j].appName /\ sent[i].start = sent[j].start) => i = j

\* C5: the shutdown flush emits exactly one Visible event for each app of
\* the stored set whose session has lasted 1 s and none for any other app,
\* and no Visible session (app, start) is ever dispatched twice.
C5_FlushEmitsOncePerVisibleApp ==
    /\ []VisibleAtMostOnce
    /\ [][FlushStep =>
            /\ \A i \in NewEntries :
                 /\ sent'[i].kind = "Visible"
                 /\ sent'[i].path = "flush"
                 /\ sent'[i].appName \in currentlyVisibleApps
            /\ \A a \in currentlyVisibleApps :
                 Cardinality({i \in NewEntries : sent'[i].appName = a}) =
                   IF /\ a \in DOMAIN visibleAppStartTimes
                      /\ now - visibleAppStartTimes[a] >= FlushMinSeconds * 1000
                   THEN 1 ELSE 0]_vars

\* A tick closed one app before the flush and the flush emitted exactly
\* the two apps that were still in the stored set.
C5_Witness ==
    /\ pc["stop"] = "unlock"
    /\ currentlyVisibleApps = {"mail", "paint"}
    /\ visibleAppStartTimes = << >>
    /\ \E i, j, k \in VisibleEntries :
         /\ sent[i].path = "tick" /\ sent[i].appName = "notes"
         /\ sent[j].path = "flush" /\ sent[j].appName = "mail"
         /\ sent[k].path = "flush" /\ sent[k].appName = "paint"
    /\ Len(sent) = 3

\* C6: no dispatched session carries an appName that equals an entry of
\* the ignore list up to letter case.
C6_NoIgnoredAppEmitted ==
    \A i \in 1..Len(sent) : ToLowerOrdinal(sent[i].appName) \notin IgnoredProcesses

\* A Visible session was dispatched while the ignored app had the focus.
C6_Witness ==
    /\ sample = [title |-> "Files", processName |-> ""]
    /\ VisibleEntries # {}


\* The positions of the focus loop inside one tick (after the sample).
FocusTickPositions == EndPositions \cup {"set_name", "set_title", "set_start"}

\* C9: dispatching a session never makes a tracker wait for delivery.  While
\* the Sink does not answer (every dispatched session stays in flight), a
\* loop that is inside a tick can always take its next step, so the tick
\* completes; a loop whose delay or timer has elapsed can start its next
\* tick; and whoever holds the visibility lock can go on to release it: a
\* loop waiting for the lock waits for its holder only, never for a delivery.
C9_DispatchNeverBlocks ==
    /\ (pc["focus"] \in FocusTickPositions) => ENABLED FocusLoop
    /\ (pc["focus"] = "sleep" /\ ~stoppingToken /\ now >= wake) => ENABLED FocusTick
    /\ (pc["vis"] \in {"diff", "unlock"}) => ENABLED VisLoop
    /\ (pc["vis"] = "wait" /\ ~stoppingToken /\ timerSignaled) => ENABLED VisTick
    /\ (pc["vis"] = "lock" /\ visibleAppsLock = "free") => ENABLED VisLock
    /\ (visibleAppsLock = "vis") => (pc["vis"] \in {"diff", "unlock"} /\ ENABLED VisLoop)
    /\ (visibleAppsLock = "stop") =>
         (pc["stop"] \in {"flush", "unlock"} /\ ENABLED StopAsync)
    /\ (pc["stop"] \in EndPositions \cup {"flush", "unlock", "cancel"}) => ENABLED StopAsync

\* A visibility tick dispatched a session that is still in flight, released
\* the lock and went back to its timer, and the focus loop ticked after it.
C9_Witness ==
    /\ pc["vis"] = "wait"
    /\ visibleAppsLock = "free"
    /\ pc["focus"] = "sleep"
    /\ pc["stop"] = "idle"
    /\ \E i \in VisibleEntries :
         /\ sent[i].path = "tick"
         /\ sent[i].status = "inflight"
         /\ wake > sent[i].start + sent[i].ms + FocusDelayMs

\* The continuation of one POST runs: an entry in flight gets its outcome.
DeliverStep ==
    \E i \in 1..Len(sent) : sent[i].status = "inflight" /\ sent'[i] # sent[i]

\* C10: each dispatched session causes at most one POST attempt.  No entry
\* ever counts a second attempt; an entry whose attempt has ended (with
\* success, a non-success response, or a timeout or connection failure) is
\* never touched again; and the step that ends an attempt changes nothing of
\* the trackers' state.
C10_SinglePostAttempt ==
    /\ [](\A i \in 1..Len(sent) : sent[i].posts = 1)
    /\ [][\A i \in 1..Len(sent) :
            sent[i].status # "inflight" => sent'[i] = sent[i]]_vars
    /\ [][DeliverStep =>
            /\ UNCHANGED trackerState
            /\ Len(sent') = Len(sent)
            /\ \A i \in 1..Len(sent) :
                 sent'[i] # sent[i] =>
                   /\ sent'[i].status \in Outcomes
                   /\ sent'[i] = [sent[i] EXCEPT !.status = sent'[i].status]]_vars

\* The POST of the session closed at stop failed, another one was rejected,
\* each after a single attempt, and the stop path ran to its end.
C10_Witness ==
    /\ pc["stop"] = "done"
    /\ \E i, j \in 1..Len(sent) :
         /\ sent[i].status = "failed" /\ sent[i].posts = 1
         /\ sent[j].status = "rejected" /\ sent[j].posts = 1

\* C11: whenever nobody is inside a lock-protected section, an app has an
\* entry in the start-time mapping if and only if it is in the stored
\* visible set.
C11_StartTimesIffVisible ==
    (visibleAppsLock = "free") => (DOMAIN visibleAppStartTimes = currentlyVisibleApps)

\* C12: every dispatched session's POST body carries all nine fields, and
\* its screenTime is true exactly for a Visible session and false exactly for
\* a Focused one.
C12_BodyHasNineFields ==
    \A i \in 1..Len(sent) :
        /\ sent[i].body = SessionEndedBody
        /\ sent[i].screenTime <=> (sent[i].kind = "Visible")

\* The Focused entries the focus loop itself has dispatched.
LoopEntries == {i \in FocusedEntries : sent[i].path = "focus"}

\* The step of the focus loop that hands the closed session to the Dispatcher.
LoopSendStep == pc["focus"] = "end_send" /\ pc'["focus"] = "clr_name"

\* C13: when a pair opened as the FocusState at t0 is closed by the first
\* tick that samples a different non-empty pair, at t1, the session that tick
\* emits carries the old appName and title and durationSeconds = the whole
\* seconds of t1 - t0, truncated (ms is t1 - t0 as line 137 measured it, one
\* delay at least and not beyond the present instant); the loop emits one session per opened pair
\* at most, so nothing for the new pair; and once the tick has closed, every
\* pair opened so far has its session (or was closed by the stop path).
C13_SwitchEmitsOldSessionOnce ==
    /\ [][LoopSendStep =>
            /\ Cardinality(NewEntries) = 1
            /\ \A i \in NewEntries, o \in opened :
                 (/\ o.start = sent'[i].start
                  /\ (o.appName # sample.processName \/ o.windowTitle # sample.title))
                 => /\ sent'[i].appName = o.appName
                    /\ sent'[i].windowTitle = o.windowTitle
                    /\ sent'[i].durationSeconds = sent'[i].ms \div 1000
                    /\ sent'[i].ms >= FocusDelayMs
                    /\ o.start + sent'[i].ms <= now]_vars
    /\ [](\A i, j \in LoopEntries : sent[i].start = sent[j].start => i = j)
    /\ []((pc["focus"] = "set_name") =>
            \A o \in opened :
                \/ \E i \in FocusedEntries : sent[i].start = o.start
                \/ \E d \in discarded : d.path = "stop" /\ d.start = o.start)

C15_FlushOwnsFocusState ==
    (pc["stop"] \in EndPositions) => (pc["focus"] = "done")

\* C16: the locked body of a visibility tick and the locked body of the
\* shutdown flush never overlap: whoever is inside its body holds the lock,
\* and the tick and the flush are never inside their bodies together, so
\* neither sees the stored set or the start times half changed by the other.
C16_TickAndFlushExclusive ==
    /\ (pc["vis"] \in {"diff", "unlock"}) => visibleAppsLock = "vis"
    /\ (pc["stop"] \in {"flush", "unlock"}) => visibleAppsLock = "stop"
    /\ ~(pc["vis"] \in {"diff", "unlock"} /\ pc["stop"] \in {"flush", "unlock"})

\* A tick has enumerated the windows and waits for the lock while the flush,
\* inside its body, is about to close the apps the previous tick stored.
C16_Witness ==
    /\ pc["vis"] = "lock"
    /\ pc["stop"] = "flush"
    /\ visibleAppsLock = "stop"
    /\ currentlyVisibleApps = {"notes", "mail"}
    /\ visibleAppsNow = {"mail", "paint"}

\* StopAsync has returned and both loops have terminated.
Stopped == pc["stop"] = "done" /\ pc["focus"] = "done" /\ pc["vis"] = "done"

\* C17: once stop has completed and both loops have terminated, the
\* trackers are drained: the FocusState is empty and no app has a start
\* time, so no session opened during the run is left open.
C17_DrainedAfterStop ==
    Stopped =>
        /\ currentProcessName = ""
        /\ currentWindowTitle = ""
        /\ sessionStartTime = MinValue
        /\ visibleAppStartTimes = << >>

\* The most sessions one run of SpecDrain dispatches.
MaxSent == 4

\* A step that starts a tick of the focus loop or of the screen-time loop.
TickBegins ==
    \/ pc["focus"] = "sleep" /\ (pc'["focus"] = "end_check" \/ wake' # wake)
    \/ pc["vis"] = "wait" /\ pc'["vis"] = "lock"

\* C18: once the stop signal is raised both loops terminate, and no tick
\* starts after it (only the tick in progress runs on); StopAsync, once
\* called, returns whether or not dispatches are in flight; and every
\* dispatch in flight ends with an outcome of its POST: delivery, a
\* non-success response, or a failure or timeout.
C18_StopTerminatesDispatchEnds ==
    /\ stoppingToken ~> (pc["focus"] = "done" /\ pc["vis"] = "done")
    /\ [][stoppingToken => ~TickBegins]_vars
    /\ (pc["stop"] # "idle") ~> (pc["stop"] \in {"done", "exited"})
    /\ \A i \in 1..MaxSent :
         (Len(sent) >= i /\ sent[i].status = "inflight")
           ~> (Len(sent) >= i /\ sent[i].status \in Outcomes)

\* The POST of a dispatched session ends in a failure or a non-success answer.
DispatchFailsStep ==
    \E i \in 1..Len(sent) :
        sent[i].status = "inflight" /\ sent'[i].status \in {"failed", "rejected"}

\* C19: an error raised inside a tick, or a failed dispatch, terminates
\* neither loop.  A loop ends only after the stop signal; a tick that throws
\* sends its loop to the next delay or timer wait, with the lock released,
\* and changes nothing of the other loop; a loop whose delay or timer has
\* elapsed can tick again; and the end of a failed POST changes nothing of
\* the trackers, so the tick that dispatched it never sees the failure.
C19_ErrorsEndNoLoop ==
    /\ []((pc["focus"] = "done" \/ pc["vis"] = "done") => stoppingToken)
    /\ [][FocusThrows =>
            /\ pc'["focus"] = "sleep"
            /\ wake' = now + FocusDelayMs
            /\ pc'["vis"] = pc["vis"]
            /\ UNCHANGED <<visibleState, visibleAppsNow, visibleAppsLock, timerSignaled>>]_vars
    /\ [][VisThrows =>
            /\ pc'["vis"] = "wait"
            /\ visibleAppsLock' # "vis"
            /\ pc'["focus"] = pc["focus"]
            /\ UNCHANGED <<focusState, wake, sample>>]_vars
    /\ []((pc["focus"] = "sleep" /\ ~stoppingToken /\ now >= wake) => ENABLED FocusTick)
    /\ []((pc["vis"] = "wait" /\ ~stoppingToken /\ timerSignaled) => ENABLED VisTick)
    /\ [][DispatchFailsStep => UNCHANGED trackerState]_vars

\* The first focus tick threw after it had set the app name; the loop ran
\* its next tick and opened the session; the POST of that session, closed
\* by the stop path, failed; the loop is asleep before its next tick and the
\* stop signal has not been raised.
C19_Witness ==
    /\ scenario = "sink"
    /\ ~stoppingToken
    /\ pc["focus"] = "sleep"
    /\ pc["vis"] = "wait"
    /\ switches = 2
    /\ Cardinality(opened) = 1
    /\ Len(sent) = 1
    /\ sent[1].status = "failed"
    /\ sent[1].path = "stop"

\* The sample of a foreground window whose process cannot be resolved.
GhostSample == [title |-> "Ghost", processName |-> "unknown"]

\* The process names of the top-level windows whose process can be resolved.
ResolvedApps == {w.processName : w \in {x \in TopLevelWindows : x.resolves}}

\* C20: a foreground window with a title whose process cannot be resolved
\* is sampled as (title, "unknown"), and the tick goes on as for any app: a
\* sample that differs from the FocusState starts the close-and-reopen, which
\* writes "unknown" and the title and opens the session at the current
\* instant; in the screen-time loop a window whose process cannot be
\* resolved adds no app to the current set (every app of the current set,
\* the stored set and the start times comes from a window whose process was
\* resolved), so "unknown" is never a visible app and never the app of a
\* Visible session.
C20_UnresolvedProcessIsUnknown ==
    /\ [](GetActiveWindowInfo(GhostWindow) = GhostSample)
    /\ [][(FocusTickStep /\ sample' = GhostSample
           /\ (currentProcessName # "unknown" \/ currentWindowTitle # "Ghost"))
          => pc'["focus"] = "end_check"]_vars
    /\ [][(pc["focus"] = "set_name" /\ pc'["focus"] = "set_title" /\ sample = GhostSample)
          => currentProcessName' = "unknown"]_vars
    /\ [][(pc["focus"] = "set_title" /\ pc'["focus"] = "set_start" /\ sample = GhostSample)
          => currentWindowTitle' = "Ghost"]_vars
    /\ [][(pc["focus"] = "set_start" /\ pc'["focus"] = "sleep" /\ sample = GhostSample
           /\ wake' = now + FocusDelayMs /\ sessionStartTime' # sessionStartTime)
          => /\ sessionStartTime' = now
             /\ [appName |-> "unknown", windowTitle |-> "Ghost", start |-> now] \in opened']_vars
    /\ [](visibleAppsNow \cup currentlyVisibleApps \cup DOMAIN visibleAppStartTimes
            \subseteq ResolvedApps)
    /\ []("unknown" \notin visibleAppsNow \cup currentlyVisibleApps
                          \cup DOMAIN visibleAppStartTimes)
    /\ [](\A i \in VisibleEntries : sent[i].appName # "unknown")

\* The session of the unresolvable window, opened at t = 0, was closed by the
\* tick that sampled another app 1.5 s later and emitted under "unknown".
C20_Witness ==
    /\ pc["stop"] = "idle"
    /\ sample = [title |-> "Doc", processName |-> "notes"]
    /\ \E i \in LoopEntries :
         /\ sent[i].appName = "unknown"
         /\ sent[i].windowTitle = "Ghost"
         /\ sent[i].start = 0
         /\ sent[i].durationSeconds = 1
         /\ sent[i].screenTime = FALSE

\* The opened sessions that the FocusState still holds.
OpenFocused ==
    {o \in opened : /\ o.start = sessionStartTime
                    /\ o.appName = currentProcessName
                    /\ o.windowTitle = currentWindowTitle}

\* C21: at every instant at most one Focused session is open, and the
\* intervals [start, start + duration] of two emitted Focused sessions do not
\* overlap: a session emitted earlier ends no later than the start of every
\* session emitted after it, and no later than the start of every session
\* opened after it was.
C21_FocusedSessionsDisjoint ==
    /\ Cardinality(OpenFocused) <= 1
    /\ \A i, j \in FocusedEntries :
         i < j => sent[i].start + sent[i].durationSeconds * 1000 <= sent[j].start
    /\ \A i \in FocusedEntries : \A o \in opened :
         o.start > sent[i].start =>
             sent[i].start + sent[i].durationSeconds * 1000 <= o.start

\* ======================================================= dashboard backend
\* Requests handled per run.
MaxRequests == 3

agent == <<scenario, switches, clock, stoppingToken, pc, wake, sample, duration,
           startRead, entryName, focusState, visibleState, visibleAppsNow,
           visibleAppsLock, timerSignaled, sent, discarded, opened>>

\* A request field that may be missing: << >> is undefined, <<v>> is v.
Undefined == << >>
Some(v) == <<v>>

\* !x for a string field: undefined and "" are falsy.
Falsy(x) == x = Undefined \/ x = Some("")

\* String.prototype.toLowerCase on the app names of this model.
ToLowerCase(s) ==
    CASE s = "Game" -> "game"
      [] s = "GAME" -> "game"
      [] OTHER -> s

\* const PARENT_SECRET = process.env.PARENT_SECRET || 'my-secret-token'
PARENT_SECRET == "my-secret-token"

\* `Bearer ${PARENT_SECRET}`: header values are sequences of tokens.
BearerTemplate == <<"Bearer", " ", PARENT_SECRET>>

\* ------------------------------------------------------------ parseInt
Digits == {"0", "1", "2", "3", "4", "5", "6", "7", "8", "9"}
DigitValue(c) ==
    CASE c = "0" -> 0 [] c = "1" -> 1 [] c = "2" -> 2 [] c = "3" -> 3
      [] c = "4" -> 4 [] c = "5" -> 5 [] c = "6" -> 6 [] c = "7" -> 7
      [] c = "8" -> 8 [] c = "9" -> 9

NaN == [nan |-> TRUE, value |-> 0]
Number(n) == [nan |-> FALSE, value |-> n]

\* StringToNumber of the longest prefix of digits, NaN when it is empty.
RECURSIVE DigitPrefix(_, _, _)
DigitPrefix(str, acc, any) ==
    IF str # << >> /\ Head(str) \in Digits
    THEN DigitPrefix(Tail(str), acc * 10 + DigitValue(Head(str)), TRUE)
    ELSE IF any THEN Number(acc) ELSE NaN

RECURSIVE TrimStart(_)
TrimStart(str) ==
    IF str # << >> /\ Head(str) = " " THEN TrimStart(Tail(str)) ELSE str

Negate(n) == IF n.nan THEN n ELSE Number(0 - n.value)

\* parseInt(str, 10): leading white space is skipped, one sign is read, then
\* the digits up to the first character that is not a digit.
ParseInt(str) ==
    LET s == TrimStart(str) IN
      IF s # << >> /\ Head(s) = "-" THEN Negate(DigitPrefix(Tail(s), 0, FALSE))
      ELSE IF s # << >> /\ Head(s) = "+" THEN DigitPrefix(Tail(s), 0, FALSE)
      ELSE DigitPrefix(s, 0, FALSE)

\* ------------------------------------------------------------ the tables
\* A ControlCommand row; deactivatedBy is the number of the request whose
\* updateMany set isActive to false (0: none), kept as history.
Row(machineName, appName, action) ==
    [machineName |-> machineName, appName |-> appName, action |-> action,
     isActive |-> TRUE, deactivatedBy |-> 0]

\* prisma.controlCommand.create: the next id is the next index.
Create(table, row) == Append(table, row)

\* prisma.controlCommand.updateMany({ where, data: { isActive: false } }) on
\* the rows whose id is in ids, by request r.
Deactivate(table, ids, r) ==
    [i \in 1..Len(table) |->
        IF i \in ids /\ table[i].isActive
        THEN [table[i] EXCEPT !.isActive = FALSE, !.deactivatedBy = r]
        ELSE table[i]]

\* ---------------------------------------------------------- the requests
\* What the clients send in each kind of run: (machineName, appName) of the
\* kill and relaunch requests, machineName of the polls, the :id of the acks,
\* (Authorization, appName, screenTime) of the activity posts.
KillInputs ==
    CASE scenario = "poll" ->
           {<<Some("pc1"), Some("game")>>, <<Some("pc2"), Some("Game")>>,
            <<Undefined, Some("game")>>}
      [] scenario = "relaunch" ->
           {<<Some("pc1"), Some("Game")>>, <<Some("pc1"), Some("chat")>>,
            <<Some("pc2"), Some("game")>>}
      [] OTHER -> {<<Some("pc1"), Some("Game")>>}
RelaunchInputs == {<<Some("pc1"), Some("GAME")>>, <<Undefined, Some("game")>>}
PendingInputs == {Undefined, Some("pc1"), Some("pc2")}
AckIds ==
    {<<"1">>, <<"2">>, <<"0">>, <<"-", "1">>, <<"x">>, <<"2", "x">>,
     <<"1", ".", "5">>, <<" ", "1">>}
GoodHeader == Some(BearerTemplate)
ActivityInputs ==
    {<<GoodHeader, Some("notes"), Undefined>>,
     <<GoodHeader, Some("notes"), Some(TRUE)>>,
     <<GoodHeader, Some("notes"), Some(FALSE)>>,
     <<GoodHeader, Some(""), Undefined>>,
     <<GoodHeader, Undefined, Some(TRUE)>>,
     <<Undefined, Some("notes"), Some(TRUE)>>,
     <<Undefined, Undefined, Undefined>>,
     <<Some(<<"bearer", " ", PARENT_SECRET>>), Some("notes"), Undefined>>,
     <<Some(<<"Bearer", " ", "wrong">>), Some("notes"), Some(FALSE)>>,
     <<Some(<<PARENT_SECRET>>), Some("notes"), Undefined>>,
     <<Some(<<"Bearer", " ", PARENT_SECRET, " ">>), Some("notes"), Some(TRUE)>>}

\* A handler: its route, where it is, its inputs, its local `commands`, the
\* status it answered (0: not yet), and as history the id of the row it
\* created and the number of rows the table had at its updateMany.
Request(route, at, status, machineName, appName, id, authorization, screenTime) ==
    [route |-> route, pc |-> at, status |-> status, machineName |-> machineName,
     appName |-> appName, id |-> id, authorization |-> authorization,
     screenTime |-> screenTime, commands |-> {}, created |-> 0, rowsSeen |-> 0]

Receive(req) ==
    /\ Len(requests) < MaxRequests
    /\ requests' = Append(requests, req)

At(r, route, at) ==
    r \in 1..Len(requests) /\ requests[r].route = route /\ requests[r].pc = at

Respond(r, status) ==
    requests' = [requests EXCEPT ![r].pc = "done", ![r].status = status]

\* --------------------------------------------- POST /api/commands/kill
\* if (!machineName || !appName) return res.status(400)
KillReceive ==
    /\ scenario \in {"poll", "relaunch", "ack"}
    /\ \E in \in KillInputs : LET m == in[1]  a == in[2] IN
         IF Falsy(m) \/ Falsy(a)
         THEN Receive(Request("kill", "done", 400, m, a, << >>, Undefined, Undefined))
         ELSE Receive(Request("kill", "create", 0, m, a, << >>, Undefined, Undefined))
    /\ UNCHANGED <<agent, controlCommand, activityLog>>

\* await prisma.controlCommand.create({ machineName, appName.toLowerCase(),
\* action: 'kill', isActive: true })
KillCreate(r) ==
    /\ At(r, "kill", "create")
    /\ controlCommand' =
         Create(controlCommand,
                Row(requests[r].machineName[1], ToLowerCase(requests[r].appName[1]),
                    "kill"))
    /\ requests' = [requests EXCEPT ![r].pc = "respond",
                                    ![r].created = Len(controlCommand) + 1]
    /\ UNCHANGED <<agent, activityLog>>

\* res.json({ success: true, ... })
KillRespond(r) ==
    /\ At(r, "kill", "respond")
    /\ Respond(r, 200)
    /\ UNCHANGED <<agent, controlCommand, activityLog>>

\* ----------------------------------------- POST /api/commands/relaunch
RelaunchReceive ==
    /\ scenario = "relaunch"
    /\ \E in \in RelaunchInputs : LET m == in[1]  a == in[2] IN
         IF Falsy(m) \/ Falsy(a)
         THEN Receive(Request("relaunch", "done", 400, m, a, << >>, Undefined, Undefined))
         ELSE Receive(Request("relaunch", "update", 0, m, a, << >>, Undefined, Undefined))
    /\ UNCHANGED <<agent, controlCommand, activityLog>>

\* where: { machineName, appName: appName.toLowerCase(), action: 'kill' }
RelaunchWhereAsGiven(row, machineName, appName) ==
    row.machineName = machineName /\ row.appName = appName /\ row.action = "kill"
RelaunchWhere(row, machineName, appName) ==
    /\ row.machineName = machineName
    /\ row.appName = ToLowerCase(appName)
    /\ row.action = "kill"

\* await prisma.controlCommand.updateMany({ where, data: { isActive: false } })
RelaunchUpdate(r) ==
    /\ At(r, "relaunch", "update")
    /\ LET ids == {i \in 1..Len(controlCommand) :
                      RelaunchWhere(controlCommand[i], requests[r].machineName[1],
                                    requests[r].appName[1])}
       IN controlCommand' = Deactivate(controlCommand, ids, r)
    /\ requests' = [requests EXCEPT ![r].pc = "create",
                                    ![r].rowsSeen = Len(controlCommand)]
    /\ UNCHANGED <<agent, activityLog>>

\* await prisma.controlCommand.create({ ..., action: 'relaunch', isActive: true })
RelaunchCreate(r) ==
    /\ At(r, "relaunch", "create")
    /\ controlCommand' =
         Create(controlCommand,
                Row(requests[r].machineName[1], ToLowerCase(requests[r].appName[1]),
                    "relaunch"))
    /\ requests' = [requests EXCEPT ![r].pc = "respond",
                                    ![r].created = Len(controlCommand) + 1]
    /\ UNCHANGED <<agent, activityLog>>

\* res.json({ success: true })
RelaunchRespond(r) ==
    /\ At(r, "relaunch", "respond")
    /\ Respond(r, 200)
    /\ UNCHANGED <<agent, controlCommand, activityLog>>

\* ------------------------------------------ GET /api/commands/pending
\* if (!machineName || typeof machineName !== 'string') return res.status(400)
PendingReceive ==
    /\ scenario = "poll"
    /\ \E m \in PendingInputs :
         IF Falsy(m)
         THEN Receive(Request("pending", "done", 400, m, Undefined, << >>, Undefined,
                              Undefined))
         ELSE Receive(Request("pending", "find", 0, m, Undefined, << >>, Undefined,
                              Undefined))
    /\ UNCHANGED <<agent, controlCommand, activityLog>>

\* const commands = await prisma.controlCommand.findMany({
\*   where: { machineName, isActive: true } });  if (commands.length > 0) ...
PendingFind(r) ==
    /\ At(r, "pending", "find")
    /\ LET commands == {i \in 1..Len(controlCommand) :
                           /\ controlCommand[i].machineName = requests[r].machineName[1]
                           /\ controlCommand[i].isActive}
       IN requests' = [requests EXCEPT ![r].commands = commands,
                          ![r].pc = IF commands # {} THEN "update" ELSE "respond"]
    /\ UNCHANGED <<agent, controlCommand, activityLog>>

\* The ids the poll deactivates: those of the rows it fetched.
PendingIds(table, commands) == commands

\* await prisma.controlCommand.updateMany({ where: { id: { in: ids } },
\*   data: { isActive: false } })
PendingUpdate(r) ==
    /\ At(r, "pending", "update")
    /\ controlCommand' =
         Deactivate(controlCommand, PendingIds(controlCommand, requests[r].commands), r)
    /\ requests' = [requests EXCEPT ![r].pc = "respond",
                                    ![r].rowsSeen = Len(controlCommand)]
    /\ UNCHANGED <<agent, activityLog>>

\* res.json(commands)
PendingRespond(r) ==
    /\ At(r, "pending", "respond")
    /\ Respond(r, 200)
    /\ UNCHANGED <<agent, controlCommand, activityLog>>

\* ------------------------------------------ POST /api/commands/ack/:id
\* if (isNaN(commandId) || commandId <= 0)
InvalidCommandId(commandId) == commandId.nan \/ commandId.value <= 0

\* const commandId = parseInt(id, 10);  invalid: res.status(400)
AckReceive ==
    /\ scenario = "ack"
    /\ \E id \in AckIds :
         IF InvalidCommandId(ParseInt(id))
         THEN Receive(Request("ack", "done", 400, Undefined, Undefined, id, Undefined,
                              Undefined))
         ELSE Receive(Request("ack", "update", 0, Undefined, Undefined, id, Undefined,
                              Undefined))
    /\ UNCHANGED <<agent, controlCommand, activityLog>>

\* where: { id: commandId, isActive: true }
AckWhere(table, i, commandId) == i = commandId

\* await prisma.controlCommand.updateMany({ where, data: { isActive: false } })
AckUpdate(r) ==
    /\ At(r, "ack", "update")
    /\ LET commandId == ParseInt(requests[r].id).value
           ids == {i \in 1..Len(controlCommand) : AckWhere(controlCommand, i, commandId)}
       IN controlCommand' = Deactivate(controlCommand, ids, r)
    /\ requests' = [requests EXCEPT ![r].pc = "respond",
                                    ![r].rowsSeen = Len(controlCommand)]
    /\ UNCHANGED <<agent, activityLog>>

\* res.json({ success: true })
AckRespond(r) ==
    /\ At(r, "ack", "respond")
    /\ Respond(r, 200)
    /\ UNCHANGED <<agent, controlCommand, activityLog>>

\* --------------------------------------------------- POST /api/activity
\* authHeader !== `Bearer ${PARENT_SECRET}`
AuthorizedByPrefix(authHeader) ==
    authHeader # Undefined /\ Len(authHeader[1]) >= 3
    /\ SubSeq(authHeader[1], 1, 3) = BearerTemplate
Authorized(authHeader) == authHeader = Some(BearerTemplate)

\* const { ..., screenTime = false } = req.body
ScreenTimeOrDefault(screenTime) == IF screenTime = Undefined THEN FALSE ELSE screenTime[1]

\* 401 unless authorized; 400 when (!appName)
ActivityReceive ==
    /\ scenario = "activity"
    /\ \E in \in ActivityInputs : LET h == in[1]  a == in[2]  s == in[3] IN
         IF ~Authorized(h)
         THEN Receive(Request("activity", "done", 401, Undefined, a, << >>, h, s))
         ELSE IF Falsy(a)
         THEN Receive(Request("activity", "done", 400, Undefined, a, << >>, h, s))
         ELSE Receive(Request("activity", "create", 0, Undefined, a, << >>, h, s))
    /\ UNCHANGED <<agent, controlCommand, activityLog>>

\* const log = await prisma.activityLog.create({ data: { ..., appName, screenTime } })
ActivityCreate(r) ==
    /\ At(r, "activity", "create")
    /\ activityLog' =
         Append(activityLog,
                [appName |-> requests[r].appName[1],
                 screenTime |-> ScreenTimeOrDefault(requests[r].screenTime),
                 request |-> r])
    /\ requests' = [requests EXCEPT ![r].pc = "respond",
                                    ![r].created = Len(activityLog) + 1]
    /\ UNCHANGED <<agent, controlCommand>>

\* res.status(201).json({ id: log.id })
ActivityRespond(r) ==
    /\ At(r, "activity", "respond")
    /\ Respond(r, 201)
    /\ UNCHANGED <<agent, controlCommand, activityLog>>

\* ------------------------------------------------------- the backend runs
Handlers == 1..MaxRequests

NextBackend ==
    \/ KillReceive
    \/ RelaunchReceive
    \/ PendingReceive
    \/ AckReceive
    \/ ActivityReceive
    \/ \E r \in Handlers : KillCreate(r)
    \/ \E r \in Handlers : KillRespond(r)
    \/ \E r \in Handlers : RelaunchUpdate(r)
    \/ \E r \in Handlers : RelaunchCreate(r)
    \/ \E r \in Handlers : RelaunchRespond(r)
    \/ \E r \in Handlers : PendingFind(r)
    \/ \E r \in Handlers : PendingUpdate(r)
    \/ \E r \in Handlers : PendingRespond(r)
    \/ \E r \in Handlers : AckUpdate(r)
    \/ \E r \in Handlers : AckRespond(r)
    \/ \E r \in Handlers : ActivityCreate(r)
    \/ \E r \in Handlers : ActivityRespond(r)

InitBackend == scenario \in {"poll", "relaunch", "ack", "activity"} /\ Start
SpecBackend == InitBackend /\ [][NextBackend]_vars


\* ------------------------------------------------- claims on the backend
Polls == {r \in 1..Len(requests) : requests[r].route = "pending"}
Answered(r) == requests[r].pc = "done"

\* C22: each control command is returned by at most one poll, whatever the
\* interleaving of the polls, and a poll deactivates no command that it does
\* not return (a command created while the poll is in progress stays active
\* for a later poll).
C22_EachCommandReturnedOnce ==
    /\ \A p, q \in Polls :
         (p # q /\ Answered(p) /\ Answered(q)) =>
             requests[p].commands \cap requests[q].commands = {}
    /\ \A i \in 1..Len(controlCommand) :
         controlCommand[i].deactivatedBy \in Polls =>
             i \in requests[controlCommand[i].deactivatedBy].commands

\* The kill commands of a machine and of the lower-cased name of an app.
KillsFor(table, machineName, appName) ==
    {i \in 1..Len(table) : /\ table[i].action = "kill"
                           /\ table[i].machineName = machineName
                           /\ table[i].appName = ToLowerCase(appName)}

\* The relaunch handler r answers success in this step.
RelaunchSucceeds(r) ==
    At(r, "relaunch", "respond") /\ requests'[r].status = 200

\* A relaunch handler's updateMany changes no command other than the kill
\* commands of its machine and app, and its create changes no command.
RelaunchIsLocal ==
    \A r \in Handlers :
      /\ (At(r, "relaunch", "update") /\ requests'[r].pc = "create") =>
            \A i \in 1..Len(controlCommand) :
               i \notin KillsFor(controlCommand, requests[r].machineName[1],
                                 requests[r].appName[1])
                 => controlCommand'[i] = controlCommand[i]
      /\ (At(r, "relaunch", "create") /\ requests'[r].pc = "respond") =>
            /\ SubSeq(controlCommand', 1, Len(controlCommand)) = controlCommand
            /\ Len(controlCommand') = Len(controlCommand) + 1
            /\ controlCommand'[Len(controlCommand')].isActive

\* C23 as stated: when POST /api/commands/relaunch answers success, no kill
\* command of that machine and lower-cased app is active, exactly one active
\* relaunch command created by the request exists for them, and the kill
\* commands of other machines or apps kept their isActive value.
C23_RelaunchLeavesNoKill ==
    [][/\ \A r \in Handlers :
            RelaunchSucceeds(r) =>
              LET m == requests[r].machineName[1]
                  a == requests[r].appName[1]
                  new == requests[r].created
              IN /\ \A i \in KillsFor(controlCommand', m, a) : ~controlCommand'[i].isActive
                 /\ controlCommand'[new] = Row(m, ToLowerCase(a), "relaunch")
        /\ RelaunchIsLocal]_vars

\* C23, amended: when POST /api/commands/relaunch answers success, every
\* kill command of that machine and lower-cased app that existed when the
\* handler's updateMany ran is inactive, whatever the letter case it was
\* requested with and however many there were; the request created exactly
\* one command, a relaunch command of that machine and lower-cased app,
\* active when created; and the handler changed no other command.
C23_RelaunchClearsEarlierKills ==
    [][/\ \A r \in Handlers :
            RelaunchSucceeds(r) =>
              LET m == requests[r].machineName[1]
                  a == requests[r].appName[1]
                  new == requests[r].created
              IN /\ \A i \in KillsFor(controlCommand', m, a) :
                      i <= requests[r].rowsSeen => ~controlCommand'[i].isActive
                 /\ new > requests[r].rowsSeen
                 /\ [controlCommand'[new] EXCEPT !.isActive = TRUE, !.deactivatedBy = 0]
                       = Row(m, ToLowerCase(a), "relaunch")
        /\ RelaunchIsLocal]_vars

\* Two kill commands requested as "Game" for pc1 were deactivated by a
\* relaunch requested as "GAME", which has answered success.
C23_Witness ==
    /\ Len(requests) = 3 /\ Len(controlCommand) = 3
    /\ requests[3].route = "relaunch" /\ requests[3].status = 200
    /\ requests[3].appName = Some("GAME")
    /\ requests[1].appName = Some("Game") /\ requests[2].appName = Some("Game")
    /\ \A i \in {1, 2} : /\ controlCommand[i].action = "kill"
                         /\ controlCommand[i].appName = "game"
                         /\ ~controlCommand[i].isActive
                         /\ controlCommand[i].deactivatedBy = 3
    /\ controlCommand[3] = Row("pc1", "game", "relaunch")

Acks == {r \in 1..Len(requests) : requests[r].route = "ack"}

\* The text of an id denotes a positive integer: digits only, after any
\* leading white space, and not zero.
DenotesPositiveInteger(str) ==
    LET s == TrimStart(str) IN
      /\ s # << >>
      /\ \A i \in 1..Len(s) : s[i] \in Digits
      /\ DigitPrefix(s, 0, FALSE).value > 0

\* What the acks have answered: 400 at once, with no command changed, for
\* an id that is not a positive integer, and success for every other id.
AcksAnswered ==
    \A r \in Acks :
        IF DenotesPositiveInteger(requests[r].id)
        THEN Answered(r) => requests[r].status = 200
        ELSE /\ Answered(r) /\ requests[r].status = 400
             /\ \A i \in 1..Len(controlCommand) : controlCommand[i].deactivatedBy # r

\* The updateMany of an ack in this step.
AckUpdateStep(r) == At(r, "ack", "update") /\ requests'[r].pc = "respond"

\* C24: an ack sets isActive to false only for the command with its id and
\* leaves every other command unchanged; it answers success whether that
\* command was active, already inactive or absent, and an ack of an inactive
\* or absent command changes nothing; an id that is not a positive integer
\* is answered 400 and changes no command.
C24_AckIsIdempotentAndLocal ==
    [][/\ AcksAnswered'
       /\ \A r \in Handlers :
            AckUpdateStep(r) =>
              LET id == DigitPrefix(TrimStart(requests[r].id), 0, FALSE).value IN
                /\ DenotesPositiveInteger(requests[r].id)
                /\ \A i \in 1..Len(controlCommand) :
                      IF i = id /\ controlCommand[i].isActive
                      THEN ~controlCommand'[i].isActive
                      ELSE controlCommand'[i] = controlCommand[i]
                /\ Len(controlCommand') = Len(controlCommand)]_vars

Posts == {r \in 1..Len(requests) : requests[r].route = "activity"}
LogsOf(r) == {i \in 1..Len(activityLog) : activityLog[i].request = r}

====
